---- MODULE Spec2Model ----
(***************************************************************************)
(* apt-rip: a user-space package manager (src/apt-rip.py).                 *)
(*                                                                         *)
(* The model follows the install and remove commands over a fixed mirror.  *)
(* Package names, queries and dependency specifiers are sequences of       *)
(* one-character strings, so that Python's substring test (`in`) and       *)
(* `split(' ')[0]` are computed, not assumed.  File paths are strings      *)
(* relative to the install root.  The install root is split into the       *)
(* package payload tree (root), the installed-packages file (stateFile)    *)
(* and the package-index cache (indexCache), the last two living under     *)
(* etc/apt-rip.                                                            *)
(***************************************************************************)
EXTENDS Naturals, Sequences, FiniteSets, TLC

VARIABLES
    root,        \* set of payload files present under config['install_root']
    stateFile,   \* etc/apt-rip/installed_packages.json: [exists, data]
    indexCache,  \* etc/apt-rip/package-indices/<dist>-<repo>.json: [exists, data]
    feed,        \* the mirror's Packages.gz for the (dist, repo) pair
    pc,          \* "idle" between commands, "done" when a command has exited
    last         \* what the command that just exited did (see Idle)

vars == <<root, stateFile, indexCache, feed, pc, last>>

----------------------------------------------------------------------------
(* Bounds *)

\* largest number of package names given to one command
MaxArgs == 2

\* longest package name and query, and largest index, of the name-resolution
\* check
MaxNameLen == 2
MaxIndexSize == 3

----------------------------------------------------------------------------
(* Program constants *)

DEFAULT_DIST == "eoan"
DEFAULT_REPO == "main"

\* JSON values of the 'explicit' field: the booleans and the string 'True'
JTrue == "true"
JFalse == "false"
JStrTrue == "str:True"

\* Python truthiness of such a value (`not installed[dep]['explicit']`)
Truthy(v) == v # JFalse

----------------------------------------------------------------------------
(* The mirror: the Packages feed and the archives it serves *)

nAB == <<"a", "b">>
nAD == <<"a", "d">>
nB == <<"b">>
nC == <<"c">>
nE == <<"e">>
nEA == <<"e", "a">>
nF == <<"f">>
nGH == <<"g", "h">>
nK == <<"k">>
nL == <<"l">>
nM == <<"m">>
nZZ == <<"z", "z">>

\* The stanzas of a Packages.gz, in feed order.  'depends' holds the raw
\* specifiers, version constraints included.

\* a dependency chain with a shared dependency, and two packages (c, ad) that
\* ship the same file
FeedChain ==
    << [name |-> nAB, filename |-> "ab.deb",
        depends |-> << <<"b", " ", "(", ">", "1", ")">>, nC >>],
       [name |-> nB, filename |-> "b.deb", depends |-> << nC >>],
       [name |-> nC, filename |-> "c.deb", depends |-> << >>],
       [name |-> nAD, filename |-> "ad.deb", depends |-> << >>] >>

\* a dependency cycle, one member of which also depends on itself
FeedCycle ==
    << [name |-> nE, filename |-> "e.deb", depends |-> << nEA >>],
       [name |-> nEA, filename |-> "ea.deb", depends |-> << nE, nEA >>] >>

\* a package with a dependency (zz) the index does not have
FeedMissing ==
    << [name |-> nGH, filename |-> "gh.deb", depends |-> << nZZ >>] >>

\* a package (k) that lists a shared dependency (m) before the package (l)
\* that shares it
FeedReverse ==
    << [name |-> nK, filename |-> "k.deb", depends |-> << nM, nL >>],
       [name |-> nL, filename |-> "l.deb", depends |-> << nM >>],
       [name |-> nM, filename |-> "m.deb", depends |-> << >>] >>

\* a package (f) that depends on a member of a two-package cycle
FeedTail ==
    << [name |-> nF, filename |-> "f.deb", depends |-> << nE >>],
       [name |-> nE, filename |-> "e.deb", depends |-> << nEA >>],
       [name |-> nEA, filename |-> "ea.deb", depends |-> << nE >>] >>

\* a feed with two stanzas that declare the same Package name
FeedDuplicate ==
    << [name |-> nGH, filename |-> "gh.deb", depends |-> << >>],
       [name |-> nGH, filename |-> "gh2.deb", depends |-> << >>] >>

Feeds == {FeedChain, FeedCycle, FeedMissing, FeedReverse, FeedTail, FeedDuplicate}

\* The files `tar xf data.tar.xz` yields for each archive, in os.walk order.
\* c.deb and ad.deb both ship share/x.
Archive(filename) ==
    CASE filename = "ab.deb" -> << "bin/ab" >>
      [] filename = "b.deb" -> << "lib/b" >>
      [] filename = "c.deb" -> << "lib/c", "share/x" >>
      [] filename = "ad.deb" -> << "share/x", "bin/ad" >>
      [] filename = "e.deb" -> << "bin/e" >>
      [] filename = "ea.deb" -> << "bin/ea" >>
      [] filename = "gh.deb" -> << "bin/gh" >>
      [] filename = "f.deb" -> << "bin/f" >>
      [] filename = "k.deb" -> << "bin/k" >>
      [] filename = "l.deb" -> << "lib/l" >>
      [] filename = "m.deb" -> << "lib/m" >>
      [] OTHER -> << >>

\* Names a user may type in an install command against each mirror
Queries(f) ==
    CASE f = FeedChain -> {nAB, nB, nC, nAD, <<"a">>}
      [] f = FeedCycle -> {nE, nEA, <<"a">>}
      [] f = FeedMissing -> {nGH, nZZ, <<"g">>}
      [] f = FeedReverse -> {nK, nL, nM}
      [] f = FeedTail -> {nF, nE, nEA}
      [] f = FeedDuplicate -> {nGH}

\* Names a user may mark with install --system
SystemNames(f) ==
    CASE f = FeedChain -> {nC}
      [] f = FeedCycle -> {nE}
      [] f = FeedMissing -> {nZZ, nGH}
      [] f = FeedReverse -> {nM}
      [] f = FeedTail -> {nE}
      [] f = FeedDuplicate -> {nGH}

\* Names a user may type in a remove command
RemoveNames(f) ==
    CASE f = FeedChain -> {nAB, nB, nC, nAD}
      [] f = FeedCycle -> {nE, nEA}
      [] f = FeedMissing -> {nGH, nZZ}
      [] f = FeedReverse -> {nK, nL, nM}
      [] f = FeedTail -> {nF, nE, nEA}
      [] f = FeedDuplicate -> {nGH}

\* The archive whose download or extraction may fail in a command, if any
NoFault == << >>
Faults(f) == IF f = FeedChain THEN {NoFault, nB} ELSE {NoFault}

----------------------------------------------------------------------------
(* Helpers *)

Range(s) == {s[i] : i \in DOMAIN s}

EmptyMap == [n \in {} |-> n]

\* the dict d with d[k] = v
Put(d, k, v) == (k :> v) @@ d

\* the dict d after `del d[k]`
Del(d, k) == [n \in (DOMAIN d) \ {k} |-> d[n]]

\* sequences over S of length 1..n
SeqsUpTo(S, n) == UNION {[1..k -> S] : k \in 1..n}

\* Python `q in n` on strings
IsSubstring(q, n) ==
    \E i \in 0..(Len(n) - Len(q)) : SubSeq(n, i + 1, i + Len(q)) = q

\* Python `dep.split(' ')[0]`
RECURSIVE FirstToken(_)
FirstToken(dep) ==
    IF dep = << >> \/ Head(dep) = " " THEN << >>
    ELSE << Head(dep) >> \o FirstToken(Tail(dep))

\* an entry of the per-command event log
Event(ev, pkg, path) == [ev |-> ev, pkg |-> pkg, path |-> path]

----------------------------------------------------------------------------
(* read_package_index and find_packages *)

NoErr == "none"

\* the loop of read_package_index over the stanzas from stanza i on:
\* packages is the dict built so far, kept in insertion order
RECURSIVE ParseFeed(_, _, _)
ParseFeed(stanzas, i, packages) ==
    IF i > Len(stanzas) THEN [err |-> NoErr, packages |-> packages]
    ELSE IF \E j \in DOMAIN packages : packages[j].name = stanzas[i].name
         THEN [err |-> "DuplicatePackage", packages |-> packages]
         ELSE ParseFeed(stanzas, i + 1, Append(packages, stanzas[i]))

\* A loader that fetches and parses the feed whether or not the cache file exists
ReadPackageIndexAlwaysFetches(cache) ==
    LET parsed == ParseFeed(feed, 1, << >>)
        dl == << Event("download_index", << >>, "Packages.gz") >>
    IN  IF parsed.err # NoErr
        THEN [err |-> parsed.err, index |-> << >>, cache |-> cache, log |-> dl]
        ELSE [err |-> NoErr, index |-> parsed.packages,
              cache |-> [exists |-> TRUE, data |-> parsed.packages],
              log |-> Append(dl, Event("write_cache", << >>, "package-indices"))]

\* read_package_index: the cached index when the cache file exists, else the
\* downloaded and parsed feed, written to the cache before returning
read_package_index(cache) ==
    IF cache.exists
    THEN [err |-> NoErr, index |-> cache.data, cache |-> cache, log |-> << >>]
    ELSE LET parsed == ParseFeed(feed, 1, << >>)
             dl == << Event("download_index", << >>, "Packages.gz") >>
         IN  IF parsed.err # NoErr
             THEN [err |-> parsed.err, index |-> << >>, cache |-> cache, log |-> dl]
             ELSE [err |-> NoErr, index |-> parsed.packages,
                   cache |-> [exists |-> TRUE, data |-> parsed.packages],
                   log |-> Append(dl, Event("write_cache", << >>, "package-indices"))]

IndexNames(index) == {index[i].name : i \in DOMAIN index}

\* index[name]
IndexEntry(index, name) == index[CHOOSE i \in DOMAIN index : index[i].name = name]

\* find_packages: the names containing the query, in index order
find_packages(index, query) ==
    LET hits == SelectSeq(index, LAMBDA e : IsSubstring(query, e.name))
    IN  [i \in DOMAIN hits |-> hits[i].name]

\* A resolution that tests for ambiguity before it tests for an exact match
ResolveAmbiguityFirst(index, package) ==
    LET results == find_packages(index, package)
    IN  IF Len(results) > 1 THEN [err |-> "Ambiguous", name |-> << >>]
        ELSE IF package \in Range(results) THEN [err |-> NoErr, name |-> package]
        ELSE IF Len(results) = 0 THEN [err |-> "NotFound", name |-> << >>]
        ELSE [err |-> NoErr, name |-> results[1]]

\* the branch cmd_install takes on one requested name
Resolve(index, package) ==
    LET results == find_packages(index, package)
    IN  IF package \in Range(results) THEN [err |-> NoErr, name |-> package]
        ELSE IF Len(results) > 1 THEN [err |-> "Ambiguous", name |-> << >>]
        ELSE IF Len(results) = 0 THEN [err |-> "NotFound", name |-> << >>]
        ELSE [err |-> NoErr, name |-> results[1]]

RECURSIVE ResolveAll(_, _, _, _)

\* A resolution loop that goes on to the next name where the code returns
ResolveAllSkipsFailures(index, args, i, packages) ==
    IF i > Len(args) THEN [err |-> NoErr, packages |-> packages, bad |-> << >>]
    ELSE LET r == Resolve(index, args[i])
         IN  IF r.err # NoErr THEN ResolveAll(index, args, i + 1, packages)
             ELSE ResolveAll(index, args, i + 1, Append(packages, r.name))

\* the resolution loop of cmd_install: stops at the first name that fails
ResolveAll(index, args, i, packages) ==
    IF i > Len(args) THEN [err |-> NoErr, packages |-> packages, bad |-> << >>]
    ELSE LET r == Resolve(index, args[i])
         IN  IF r.err # NoErr THEN [err |-> r.err, packages |-> packages, bad |-> args[i]]
             ELSE ResolveAll(index, args, i + 1, Append(packages, r.name))

----------------------------------------------------------------------------
(* Installer.install *)

\* the os.walk loop: check each extracted file against the install root and
\* the validated staging directory, then move it to the staging directory
RECURSIVE StageFiles(_, _, _, _, _)

\* A loop that checks a file against the staging directory only
StageFilesIgnoringRoot(tx, rootFiles, package, files, i) ==
    IF i > Len(files) THEN tx
    ELSE IF files[i] \in tx.staged
         THEN [tx EXCEPT !.err = "Conflict",
                         !.log = Append(@, Event("conflict", package, files[i]))]
         ELSE StageFiles([tx EXCEPT !.staged = @ \cup {files[i]},
                                    !.log = Append(@, Event("stage", package, files[i]))],
                         rootFiles, package, files, i + 1)

StageFiles(tx, rootFiles, package, files, i) ==
    IF i > Len(files) THEN tx
    ELSE IF files[i] \in rootFiles \/ files[i] \in tx.staged
         THEN [tx EXCEPT !.err = "Conflict",
                         !.log = Append(@, Event("conflict", package, files[i]))]
         ELSE StageFiles([tx EXCEPT !.staged = @ \cup {files[i]},
                                    !.log = Append(@, Event("stage", package, files[i]))],
                         rootFiles, package, files, i + 1)

\* env: what the Installer was constructed with (index, installed, the install
\* root's files, the archive that fails).  tx: new_installed, the validated
\* staging directory, the events so far, and the exception raised if any.
\* A check that looks at this transaction's packages only
AlreadyInstalledThisRun(env, tx, package) == package \in DOMAIN tx.new_installed

\* A check that looks at the packages installed before this run only
AlreadyInstalledBefore(env, tx, package) == package \in DOMAIN env.installed

\* `package in self.installed or package in self.new_installed`
AlreadyInstalled(env, tx, package) ==
    package \in DOMAIN env.installed \/ package \in DOMAIN tx.new_installed

RECURSIVE install(_, _, _, _)
RECURSIVE InstallDeps(_, _, _, _)

\* An installer that takes a second visit to a package of this run for an error
InstallRaisesOnRevisit(env, tx, package, explicit) ==
    IF tx.err # NoErr THEN tx
    ELSE IF package \in DOMAIN tx.new_installed
    THEN [tx EXCEPT !.err = "Revisit"]
    ELSE IF package \in DOMAIN env.installed
    THEN IF explicit
         THEN [tx EXCEPT !.log = Append(@, Event("already_installed", package, ""))]
         ELSE tx
    ELSE IF package \notin IndexNames(env.index)
    THEN [tx EXCEPT !.err = "KeyError",
                    !.log = Append(@, Event("not_in_index", package, ""))]
    ELSE
    LET entry == IndexEntry(env.index, package)
        files == Archive(entry.filename)
        t1 == [tx EXCEPT !.log = @ \o << Event("download", package, entry.filename),
                                         Event("extract", package, entry.filename) >>]
        t2 == StageFiles(t1, env.root, package, files, 1)
        install_info == [dist |-> DEFAULT_DIST,
                         repo |-> DEFAULT_REPO,
                         explicit |-> IF explicit THEN JTrue ELSE JFalse,
                         files |-> files,
                         depends |-> [k \in DOMAIN entry.depends |->
                                         FirstToken(entry.depends[k])]]
    IN  IF package = env.fault THEN [t1 EXCEPT !.err = "Extraction"]
        ELSE IF t2.err # NoErr THEN t2
        ELSE InstallDeps(env,
                         [t2 EXCEPT !.new_installed = Put(@, package, install_info)],
                         entry.depends, 1)

install(env, tx, package, explicit) ==
    IF tx.err # NoErr THEN tx
    ELSE IF AlreadyInstalled(env, tx, package)
    THEN IF explicit
         THEN [tx EXCEPT !.log = Append(@, Event("already_installed", package, ""))]
         ELSE tx
    ELSE IF package \notin IndexNames(env.index)
    THEN [tx EXCEPT !.err = "KeyError",
                    !.log = Append(@, Event("not_in_index", package, ""))]
    ELSE
    LET entry == IndexEntry(env.index, package)
        t1 == [tx EXCEPT !.log = Append(@, Event("download", package, entry.filename))]
    IN  IF package = env.fault
        THEN [t1 EXCEPT !.err = "Extraction"]
        ELSE
        LET files == Archive(entry.filename)
            t2 == StageFiles([t1 EXCEPT !.log = Append(@, Event("extract", package, entry.filename))],
                             env.root, package, files, 1)
            install_info == [dist |-> DEFAULT_DIST,
                             repo |-> DEFAULT_REPO,
                             explicit |-> IF explicit THEN JTrue ELSE JFalse,
                             files |-> files,
                             depends |-> [k \in DOMAIN entry.depends |->
                                             FirstToken(entry.depends[k])]]
        IN  IF t2.err # NoErr THEN t2
            ELSE InstallDeps(env,
                             [t2 EXCEPT !.new_installed = Put(@, package, install_info)],
                             entry.depends, 1)

\* `for dep in dependencies: self.install(dep.split(' ')[0], False)`
InstallDeps(env, tx, dependencies, i) ==
    IF i > Len(dependencies) \/ tx.err # NoErr THEN tx
    ELSE InstallDeps(env, install(env, tx, FirstToken(dependencies[i]), FALSE),
                     dependencies, i + 1)

\* `for package in packages: installer.install(package, True)`
RECURSIVE InstallAll(_, _, _, _)
InstallAll(env, tx, packages, i) ==
    IF i > Len(packages) \/ tx.err # NoErr THEN tx
    ELSE InstallAll(env, install(env, tx, packages[i], TRUE), packages, i + 1)

----------------------------------------------------------------------------
(* read_installed, write_installed *)

\* read_installed: the file's mapping, or {} when the file does not exist
read_installed(file) == IF file.exists THEN file.data ELSE EmptyMap

\* write_installed: the file holds the mapping afterwards
write_installed(installed) == [exists |-> TRUE, data |-> installed]

----------------------------------------------------------------------------
(* cmd_install *)

\* the walk of a directory's files, in some fixed order
RECURSIVE Walk(_)
Walk(files) ==
    IF files = {} THEN << >>
    ELSE LET f == CHOOSE x \in files : TRUE IN << f >> \o Walk(files \ {f})

\* the --system loop: mark each name not yet installed
RECURSIVE MarkSystem(_, _, _, _)
MarkSystem(installed, log, args, i) ==
    IF i > Len(args) THEN [installed |-> installed, log |-> log]
    ELSE IF args[i] \in DOMAIN installed
         THEN MarkSystem(installed, Append(log, Event("already_installed", args[i], "")),
                         args, i + 1)
         ELSE MarkSystem(Put(installed, args[i],
                             [dist |-> "special", repo |-> "system", explicit |-> JStrTrue,
                              files |-> << >>, depends |-> << >>]),
                         log, args, i + 1)

\* The result of a command: what it leaves on disk, the dict it held in memory
\* when it exited, how it exited ("ok": ran to its end, "stopped": printed an
\* error and returned, "raised": an exception ended it), what it did, and the
\* calls of remove it made.
Result(rootFiles, file, cache, mem, outcome, err, log, calls) ==
    [root |-> rootFiles, stateFile |-> file, indexCache |-> cache, mem |-> mem,
     outcome |-> outcome, err |-> err, log |-> log, calls |-> calls]

\* the move of every staged file into the install root
Commit(staged) == [i \in DOMAIN Walk(staged) |-> Event("move", << >>, Walk(staged)[i])]

\* Transaction finalization: move the staged files into the install root,
\* merge new_installed into the installed dict and write it
Finalize(installed, cache, tx) ==
    LET merged == tx.new_installed @@ installed
    IN  Result(root \cup tx.staged, write_installed(merged), cache, merged, "ok", NoErr,
               Append(tx.log \o Commit(tx.staged), Event("write_state", << >>, "")),
               << >>)

\* A transaction that finalizes whatever was staged when an install raised
TransactionFinalizesOnError(index, installed, cache, packages, fault, log) ==
    LET env == [index |-> index, installed |-> installed, root |-> root, fault |-> fault]
        tx == InstallAll(env,
                         [new_installed |-> EmptyMap, staged |-> {}, log |-> log,
                          err |-> NoErr],
                         packages, 1)
    IN  IF tx.err # NoErr
        THEN [Finalize(installed, cache, tx) EXCEPT !.outcome = "raised", !.err = tx.err]
        ELSE Finalize(installed, cache, tx)

\* The `with tempfile.TemporaryDirectory()` block: install every resolved
\* package into the staging directories, then finalize.  An exception leaves
\* the block before finalization and the staging directories are deleted.
Transaction(index, installed, cache, packages, fault, log) ==
    LET env == [index |-> index, installed |-> installed, root |-> root, fault |-> fault]
        tx == InstallAll(env,
                         [new_installed |-> EmptyMap, staged |-> {}, log |-> log,
                          err |-> NoErr],
                         packages, 1)
    IN  IF tx.err # NoErr
        THEN Result(root, stateFile, cache, installed, "raised", tx.err, tx.log, << >>)
        ELSE Finalize(installed, cache, tx)

cmd_install(args, system, fault) ==
    LET loaded == read_package_index(indexCache)
        index == loaded.index
        installed == read_installed(stateFile)
    IN  IF loaded.err # NoErr
        THEN Result(root, stateFile, loaded.cache, EmptyMap, "raised", loaded.err,
                    loaded.log, << >>)
        ELSE IF system
        THEN LET m == MarkSystem(installed, loaded.log, args, 1)
             IN  Result(root, write_installed(m.installed), loaded.cache, m.installed,
                        "ok", NoErr, Append(m.log, Event("write_state", << >>, "")), << >>)
        ELSE
        LET res == ResolveAll(index, args, 1, << >>)
        IN  IF res.err # NoErr
            THEN Result(root, stateFile, loaded.cache, installed, "stopped", res.err,
                        Append(loaded.log, Event("resolve_failed", res.bad, "")), << >>)
            ELSE Transaction(index, installed, loaded.cache, res.packages, fault,
                             loaded.log)

----------------------------------------------------------------------------
(* remove, cmd_remove *)

\* Reverse dependents, counting only the explicitly installed ones
ExplicitReverseDependencies(installed, package) ==
    {rdep \in DOMAIN installed : /\ package \in Range(installed[rdep].depends)
                                 /\ installed[rdep].explicit = JTrue}

\* A scan that does not count a package among its own reverse dependencies
OtherReverseDependencies(installed, package) ==
    {rdep \in DOMAIN installed \ {package} : package \in Range(installed[rdep].depends)}

direct_reverse_dependencies(installed, package) ==
    {rdep \in DOMAIN installed : package \in Range(installed[rdep].depends)}

\* the loop over the package's files: delete those present, warn for the rest
RECURSIVE RemoveFiles(_, _, _, _)

\* A loop that raises at a missing file where the code prints a warning
RemoveFilesRaisesOnMissing(st, package, files, i) ==
    IF i > Len(files) THEN st
    ELSE IF files[i] \notin st.root
         THEN [st EXCEPT !.err = "MissingFile",
                         !.log = Append(@, Event("missing", package, files[i]))]
         ELSE RemoveFiles([st EXCEPT !.root = @ \ {files[i]},
                                     !.log = Append(@, Event("delete", package, files[i]))],
                          package, files, i + 1)

RemoveFiles(st, package, files, i) ==
    IF i > Len(files) THEN st
    ELSE IF files[i] \notin st.root
         THEN RemoveFiles([st EXCEPT !.log = Append(@, Event("missing", package, files[i]))],
                          package, files, i + 1)
         ELSE RemoveFiles([st EXCEPT !.root = @ \ {files[i]},
                                     !.log = Append(@, Event("delete", package, files[i]))],
                          package, files, i + 1)

\* The record of one call remove(package, quiet) on a package that was
\* installed: the packages that listed it in 'depends', how it ended, whether the
\* package is still in the dict when it returns, and the files of the package
\* that were in the install root at the call and are not at the return.
Called(before, after, package, quiet, result) ==
    [after EXCEPT !.calls =
        Append(@, [pkg |-> package, quiet |-> quiet, result |-> result,
                   rdeps |-> {r \in DOMAIN before.installed :
                                 \E k \in DOMAIN before.installed[r].depends :
                                     before.installed[r].depends[k] = package},
                   present |-> package \in DOMAIN after.installed,
                   lost |-> (Range(before.installed[package].files) \cap before.root)
                                \ after.root])]

\* st: the installed dict in memory, the install root's files, the events and
\* the calls so far, and the exception raised if any
RECURSIVE remove(_, _, _)
RECURSIVE RemoveDeps(_, _, _)

\* A remove whose cascade calls do not look for reverse dependencies
RemoveCascadeIgnoresDependents(st, package, quiet) ==
    IF st.err # NoErr \/ package \notin DOMAIN st.installed THEN st
    ELSE IF ~quiet /\ direct_reverse_dependencies(st.installed, package) # {}
    THEN Called(st, [st EXCEPT !.err = "Blocked"], package, quiet, "raised")
    ELSE
    LET s1 == RemoveFiles(st, package, st.installed[package].files, 1)
        deps == st.installed[package].depends
        s2 == [s1 EXCEPT !.installed = Del(@, package)]
    IN  Called(st, RemoveDeps(s2, deps, 1), package, quiet, "removed")

\* A remove whose cascade stops at the dependencies of the package named by the user
RemoveCascadeOneLevel(st, package, quiet) ==
    IF st.err # NoErr \/ package \notin DOMAIN st.installed THEN st
    ELSE
    LET rdeps == direct_reverse_dependencies(st.installed, package)
    IN  IF rdeps # {}
        THEN IF quiet
             THEN Called(st, st, package, quiet, "skipped")
             ELSE Called(st, [st EXCEPT !.err = "Blocked"], package, quiet, "raised")
        ELSE
        LET s1 == RemoveFiles(st, package, st.installed[package].files, 1)
            deps == st.installed[package].depends
            s2 == [s1 EXCEPT !.installed = Del(@, package)]
        IN  Called(st, IF quiet THEN s2 ELSE RemoveDeps(s2, deps, 1),
                   package, quiet, "removed")

remove(st, package, quiet) ==
    IF st.err # NoErr \/ package \notin DOMAIN st.installed THEN st
    ELSE
    LET rdeps == direct_reverse_dependencies(st.installed, package)
    IN  IF rdeps # {}
        THEN IF quiet
             THEN Called(st, st, package, quiet, "skipped")
             ELSE Called(st, [st EXCEPT !.err = "Blocked"], package, quiet, "raised")
        ELSE
        LET s1 == RemoveFiles(st, package, st.installed[package].files, 1)
            deps == st.installed[package].depends
            s2 == [s1 EXCEPT !.installed = Del(@, package)]
        IN  Called(st, RemoveDeps(s2, deps, 1), package, quiet, "removed")

\* A cascade that does not look at the explicit flag
RemoveDepsIgnoringExplicit(st, deps, i) ==
    IF i > Len(deps) THEN st
    ELSE IF deps[i] \in DOMAIN st.installed
         THEN RemoveDeps(remove(st, deps[i], TRUE), deps, i + 1)
         ELSE RemoveDeps(st, deps, i + 1)

\* `for dep in deps: if dep in installed and not installed[dep]['explicit']: ...`
RemoveDeps(st, deps, i) ==
    IF i > Len(deps) THEN st
    ELSE IF deps[i] \in DOMAIN st.installed /\ ~Truthy(st.installed[deps[i]].explicit)
         THEN RemoveDeps(remove(st, deps[i], TRUE), deps, i + 1)
         ELSE RemoveDeps(st, deps, i + 1)

\* the loop of cmd_remove over the named packages
RECURSIVE RemoveAll(_, _, _)
RemoveAll(st, args, i) ==
    IF i > Len(args) \/ st.err # NoErr THEN st
    ELSE IF args[i] \notin DOMAIN st.installed
         THEN [st EXCEPT !.err = "NotInstalled",
                         !.log = Append(@, Event("not_installed", args[i], ""))]
         ELSE RemoveAll(remove(st, args[i], FALSE), args, i + 1)

cmd_remove(args) ==
    LET installed == read_installed(stateFile)
        st == RemoveAll([installed |-> installed, root |-> root, log |-> << >>,
                         calls |-> << >>, err |-> NoErr], args, 1)
    IN  IF st.err # NoErr
        THEN Result(st.root, stateFile, indexCache, st.installed, "raised", st.err,
                    st.log, st.calls)
        ELSE Result(st.root, write_installed(st.installed), indexCache, st.installed,
                    "ok", NoErr, Append(st.log, Event("write_state", << >>, "")), st.calls)

----------------------------------------------------------------------------
(* The state machine: a user runs one command after another *)

\* nothing is recorded between commands
Idle == [op |-> "none", args |-> << >>, system |-> FALSE, fault |-> NoFault,
         outcome |-> "none", err |-> NoErr, log |-> << >>, calls |-> << >>,
         mem |-> EmptyMap,
         before |-> [root |-> {}, stateFile |-> [exists |-> FALSE, data |-> EmptyMap],
                     indexCache |-> [exists |-> FALSE, data |-> << >>]]]

\* the record of the command that has just exited with result r
Exited(op, args, system, fault, r) ==
    [op |-> op, args |-> args, system |-> system, fault |-> fault,
     outcome |-> r.outcome, err |-> r.err, log |-> r.log, calls |-> r.calls,
     mem |-> r.mem,
     before |-> [root |-> root, stateFile |-> stateFile, indexCache |-> indexCache]]

Init ==
    /\ root = {}
    /\ stateFile = [exists |-> FALSE, data |-> EmptyMap]
    /\ indexCache = [exists |-> FALSE, data |-> << >>]
    /\ feed \in Feeds
    /\ pc = "idle"
    /\ last = Idle

\* `apt-rip install [--system] args`
Install(args, system, fault) ==
    /\ pc = "idle"
    /\ LET r == cmd_install(args, system, fault)
       IN  /\ root' = r.root
           /\ stateFile' = r.stateFile
           /\ indexCache' = r.indexCache
           /\ last' = Exited("install", args, system, fault, r)
    /\ pc' = "done"
    /\ UNCHANGED feed

\* `apt-rip remove args`
Remove(args) ==
    /\ pc = "idle"
    /\ LET r == cmd_remove(args)
       IN  /\ root' = r.root
           /\ stateFile' = r.stateFile
           /\ indexCache' = r.indexCache
           /\ last' = Exited("remove", args, FALSE, NoFault, r)
    /\ pc' = "done"
    /\ UNCHANGED feed

\* the process has exited; the user is back at the prompt
Exit ==
    /\ pc = "done"
    /\ pc' = "idle"
    /\ last' = Idle
    /\ UNCHANGED <<root, stateFile, indexCache, feed>>

Next ==
    \/ \E args \in SeqsUpTo(Queries(feed), MaxArgs), fault \in Faults(feed) :
           Install(args, FALSE, fault)
    \/ \E args \in SeqsUpTo(SystemNames(feed), MaxArgs) : Install(args, TRUE, NoFault)
    \/ \E args \in SeqsUpTo(RemoveNames(feed), MaxArgs) : Remove(args)
    \/ Exit

Spec == Init /\ [][Next]_vars

\* The same machine, following only the commands that do not raise
NextOk ==
    \/ \E args \in SeqsUpTo(Queries(feed), MaxArgs), fault \in Faults(feed) :
           Install(args, FALSE, fault) /\ last'.outcome # "raised"
    \/ \E args \in SeqsUpTo(SystemNames(feed), MaxArgs) :
           Install(args, TRUE, NoFault) /\ last'.outcome # "raised"
    \/ \E args \in SeqsUpTo(RemoveNames(feed), MaxArgs) :
           Remove(args) /\ last'.outcome # "raised"
    \/ Exit

SpecOk == Init /\ [][NextOk]_vars

\* The same machine, following only the install commands without --system and
\* the remove commands that do not raise
NextUser ==
    \/ \E args \in SeqsUpTo(Queries(feed), MaxArgs), fault \in Faults(feed) :
           Install(args, FALSE, fault) /\ last'.outcome # "raised"
    \/ \E args \in SeqsUpTo(RemoveNames(feed), MaxArgs) :
           Remove(args) /\ last'.outcome # "raised"
    \/ Exit

SpecUser == Init /\ [][NextUser]_vars

----------------------------------------------------------------------------
(* The same machine in an install root that something else also modifies *)

\* a file of the install root is deleted from outside, between two commands
OutsideDelete(f) ==
    /\ pc = "idle"
    /\ f \in root
    /\ root' = root \ {f}
    /\ UNCHANGED <<stateFile, indexCache, feed, pc, last>>

NextOutside ==
    \/ Next
    \/ \E f \in root : OutsideDelete(f)

SpecOutside == Init /\ [][NextOutside]_vars

----------------------------------------------------------------------------
(* The same machine against a mirror whose feed changes over time *)

\* the feeds the mirror may publish after f: the duplicate stanza of gh is
\* replaced by a stanza that depends on zz, and package f is added to e and ea
NewerFeeds(f) ==
    CASE f = FeedDuplicate -> {FeedMissing}
      [] f = FeedCycle -> {FeedTail}
      [] OTHER -> {}

\* the mirror publishes another Packages.gz for (dist, repo), between two commands
MirrorUpdate(f) ==
    /\ pc = "idle"
    /\ f \in NewerFeeds(feed)
    /\ feed' = f
    /\ UNCHANGED <<root, stateFile, indexCache, pc, last>>

NextMirror ==
    \/ Next
    \/ \E f \in Feeds : MirrorUpdate(f)

SpecMirror == Init /\ [][NextMirror]_vars

----------------------------------------------------------------------------
(* Name resolution on its own: any small index, any short query *)

Alphabet == {"a", "b"}

\* the strings over the alphabet of length lo..hi
Strings(lo, hi) == UNION {[1..k -> Alphabet] : k \in lo..hi}

\* a feed whose stanzas are the given names, with no Depends field
FeedOf(names) ==
    [i \in DOMAIN Walk(names) |->
        [name |-> Walk(names)[i], filename |-> "x.deb", depends |-> << >>]]

InitResolve ==
    /\ root = {}
    /\ stateFile = [exists |-> FALSE, data |-> EmptyMap]
    /\ indexCache = [exists |-> FALSE, data |-> << >>]
    /\ feed \in {FeedOf(S) : S \in {T \in SUBSET Strings(1, MaxNameLen) :
                                       Cardinality(T) <= MaxIndexSize}}
    /\ pc = "idle"
    /\ last = Idle

\* the resolution of one requested name against the index of the feed
ResolveQuery(query) ==
    /\ pc = "idle"
    /\ LET r == Resolve(ParseFeed(feed, 1, << >>).packages, query)
       IN  last' = [Idle EXCEPT !.op = "resolve", !.args = << query >>, !.err = r.err,
                                !.log = << Event("resolved", r.name, "") >>]
    /\ pc' = "done"
    /\ UNCHANGED <<root, stateFile, indexCache, feed>>

NextResolve ==
    \/ \E query \in Strings(0, MaxNameLen) : ResolveQuery(query)
    \/ Exit

SpecResolve == InitResolve /\ [][NextResolve]_vars

----------------------------------------------------------------------------
(* Observations on the command that has just exited *)

\* the installed dict the command read at its start
InstalledBefore == read_installed(last.before.stateFile)

\* the installed dict now on disk
InstalledNow == read_installed(stateFile)

\* the events of the log with the given tag
EventsOf(ev) == {i \in DOMAIN last.log : last.log[i].ev = ev}

\* the packages the log has an event of the given tag for
PackagesOf(ev) == {last.log[i].pkg : i \in EventsOf(ev)}

\* the files of an installed entry
FilesOf(installed, p) == Range(installed[p].files)

----------------------------------------------------------------------------
(* Claims *)

FileOwnershipDisjoint ==
    \A p, q \in DOMAIN InstalledNow :
        p # q => FilesOf(InstalledNow, p) \cap FilesOf(InstalledNow, q) = {}

\* C2 witness: three packages with files are installed side by side, among
\* them ad, which ships a file that c ships too (c is marked as a system
\* package, so it owns no file)
FileOwnershipDisjointWitness ==
    /\ pc = "done" /\ last.op = "install" /\ last.outcome = "ok"
    /\ {nAB, nB, nAD, nC} \subseteq DOMAIN InstalledNow
    /\ "share/x" \in FilesOf(InstalledNow, nAD)
    /\ "share/x" \in root

\* C3: Removal safety.  Every call remove(P, quiet) made while an installed
\* package lists P in its depends raises when quiet is false and returns
\* without effect when quiet is true; either way P is still in the installed
\* dict and every file of P that was in the install root still is.
RemovalSafety ==
    pc = "done" =>
        \A i \in DOMAIN last.calls :
            last.calls[i].rdeps # {}
            => /\ last.calls[i].result = IF last.calls[i].quiet THEN "skipped" ELSE "raised"
               /\ last.calls[i].present
               /\ last.calls[i].lost = {}
               /\ (~last.calls[i].quiet => last.err = "Blocked")

\* C3 witness: one command made a cascade call that was skipped and an
\* explicit call that raised, both on a package with files in the install root
RemovalSafetyWitness ==
    /\ pc = "done" /\ last.op = "remove"
    /\ \E i, j \in DOMAIN last.calls :
          /\ last.calls[i].quiet /\ last.calls[i].result = "skipped"
          /\ ~last.calls[j].quiet /\ last.calls[j].result = "raised"
          /\ FilesOf(InstalledBefore, last.calls[i].pkg) \subseteq root
          /\ FilesOf(InstalledBefore, last.calls[j].pkg) # {}

\* C4: Partial-failure scope of remove.  When a remove command ends with the
\* blocked-by-dependents error for one named package, the removals it carried
\* out for the other named packages are reflected in the installed-packages
\* file at exit.
RemoveFailureKeepsOtherRemovals ==
    (pc = "done" /\ last.op = "remove" /\ last.err = "Blocked")
    => \A i \in DOMAIN last.calls :
           last.calls[i].result = "removed" => last.calls[i].pkg \notin DOMAIN InstalledNow

\* C5: Lifecycle consistency.  After any install or remove command exits,
\* every package in the installed-packages file has all its recorded files in
\* the install root, and every file in the install root belongs to a package
\* in the installed-packages file.
LifecycleConsistent ==
    pc = "done" =>
        /\ \A p \in DOMAIN InstalledNow : FilesOf(InstalledNow, p) \subseteq root
        /\ root \subseteq UNION {FilesOf(InstalledNow, p) : p \in DOMAIN InstalledNow}

\* C6: Cascade boundary.  A successful `remove A` where A depends on an
\* installed B: if B is not explicit and no installed package other than A
\* depends on B, both A and B are removed, entries and files; if B is
\* explicit, A is removed and B stays installed with its files.
CascadeBoundary ==
    (pc = "done" /\ last.op = "remove" /\ last.outcome = "ok" /\ Len(last.args) = 1)
    => LET A == last.args[1]
           before == InstalledBefore
       IN  /\ A \notin DOMAIN InstalledNow
           /\ FilesOf(before, A) \cap root = {}
           /\ \A B \in Range(before[A].depends) \cap DOMAIN before :
                  IF Truthy(before[B].explicit)
                  THEN /\ B \in DOMAIN InstalledNow
                       /\ InstalledNow[B] = before[B]
                       /\ FilesOf(before, B) \cap last.before.root \subseteq root
                  ELSE (\A r \in DOMAIN before : B \in Range(before[r].depends) => r = A)
                       => /\ B \notin DOMAIN InstalledNow
                          /\ FilesOf(before, B) \cap root = {}

\* C6 witness: `remove ab` removed ab and its non-explicit dependency b, whose
\* files were in the install root, and left its explicit dependency c
CascadeBoundaryWitness ==
    /\ pc = "done" /\ last.op = "remove" /\ last.outcome = "ok"
    /\ last.args = << nAB >>
    /\ nB \in DOMAIN InstalledBefore /\ InstalledBefore[nB].explicit = JFalse
    /\ "lib/b" \in last.before.root /\ "lib/b" \notin root
    /\ nB \notin DOMAIN InstalledNow
    /\ nC \in DOMAIN InstalledNow /\ InstalledNow[nC].explicit = JTrue
    /\ "lib/c" \in root

\* C7: The explicit flag.  After a successful install command every package
\* the user named in it is recorded with explicit = true, whatever the order
\* of the names and whether or not it was installed before as a dependency.
ExplicitFlagMarksRequested ==
    (pc = "done" /\ last.op = "install" /\ ~last.system /\ last.outcome = "ok")
    => \A i \in DOMAIN last.args :
           LET r == Resolve(indexCache.data, last.args[i])
           IN  /\ r.name \in DOMAIN InstalledNow
               /\ InstalledNow[r.name].explicit = JTrue

\* the names of the mirror's feed, and the rule of the specification: a
\* requested name resolves when it is a name of the index or exactly one name
\* of the index contains it
FeedNames == {feed[i].name : i \in DOMAIN feed}

Contains(n, q) == \E i \in 0..Len(n) : \E j \in i..Len(n) : SubSeq(n, i + 1, j) = q

Candidates(q) == {n \in FeedNames : Contains(n, q)}

Resolvable(q) == q \in FeedNames \/ Cardinality(Candidates(q)) = 1

ResolvedName(q) == IF q \in FeedNames THEN q ELSE CHOOSE n \in Candidates(q) : TRUE

\* the events that touch the network or write under the install root
ActivityEvents ==
    {i \in DOMAIN last.log :
        last.log[i].ev \in {"download_index", "write_cache", "download", "extract",
                            "stage", "move", "delete", "write_state"}}

\* C8 as claimed: an install command whose every requested package is
\* already installed reports "already installed", leaves the installed dict
\* unchanged and mutates nothing on disk: no file under the install root is
\* created, moved, rewritten or deleted.
IdempotentInstallNoMutation ==
    (pc = "done" /\ last.op = "install" /\ ~last.system
        /\ \A i \in DOMAIN last.args : last.args[i] \in DOMAIN InstalledBefore)
    => /\ \A i \in DOMAIN last.args : last.args[i] \in PackagesOf("already_installed")
       /\ stateFile = last.before.stateFile
       /\ root = last.before.root
       /\ ActivityEvents = {}

\* C8 amended: an install command whose every requested name resolves in the
\* index to a package already installed reports "already installed" for each,
\* downloads nothing, creates, moves or deletes no file and leaves the
\* installed dict unchanged; it does rewrite the installed-packages file, with
\* the same mapping.  And in every install command that succeeds, a package
\* installed before is not downloaded or staged and its entry is unchanged.
IdempotentInstall ==
    (pc = "done" /\ last.op = "install" /\ ~last.system)
    => /\ (\A i \in DOMAIN last.args :
              /\ Resolvable(last.args[i])
              /\ ResolvedName(last.args[i]) \in DOMAIN InstalledBefore)
          => /\ last.outcome = "ok"
             /\ \A i \in DOMAIN last.args :
                    ResolvedName(last.args[i]) \in PackagesOf("already_installed")
             /\ InstalledNow = InstalledBefore
             /\ root = last.before.root
             /\ \A i \in ActivityEvents : last.log[i].ev = "write_state"
             /\ Cardinality(EventsOf("write_state")) = 1
       /\ last.outcome = "ok"
          => \A p \in DOMAIN InstalledBefore :
                 /\ p \in DOMAIN InstalledNow
                 /\ InstalledNow[p] = InstalledBefore[p]
                 /\ p \notin PackagesOf("download") \cup PackagesOf("stage")

\* C8 witness: an install of two installed packages with files, one of which
\* depends on the other, has rewritten the installed-packages file
IdempotentInstallWitness ==
    /\ pc = "done" /\ last.op = "install" /\ ~last.system
    /\ last.args = << nAB, nB >>
    /\ {nAB, nB} \subseteq DOMAIN InstalledBefore
    /\ {"bin/ab", "lib/b"} \subseteq root
    /\ PackagesOf("already_installed") = {nAB, nB}
    /\ EventsOf("write_state") # {}

\* C9 as claimed: when a requested name of an install command fails to
\* resolve, the command stops before any network request and any filesystem
\* write, also when no index cache exists on disk.
ResolutionPrecedesAllActivity ==
    (pc = "done" /\ last.op = "install" /\ ~last.system
        /\ \E i \in DOMAIN last.args : ~Resolvable(last.args[i]))
    => /\ last.outcome = "stopped"
       /\ ActivityEvents = {}
       /\ root = last.before.root
       /\ stateFile = last.before.stateFile
       /\ indexCache = last.before.indexCache

\* C9 amended: when a requested name of an install command fails to resolve,
\* the command stops before any package archive is downloaded and before any
\* write to the package files or the installed-packages file.  The index is
\* loaded before the names are resolved: with an index cache on disk nothing
\* is fetched or written at all; without one, the feed has been downloaded and
\* the cache written, and nothing else.
ResolutionPrecedesInstall ==
    (pc = "done" /\ last.op = "install" /\ ~last.system
        /\ \E i \in DOMAIN last.args : ~Resolvable(last.args[i]))
    => /\ last.outcome = "stopped"
       /\ last.err \in {"NotFound", "Ambiguous"}
       /\ root = last.before.root
       /\ stateFile = last.before.stateFile
       /\ IF last.before.indexCache.exists
          THEN /\ ActivityEvents = {}
               /\ indexCache = last.before.indexCache
          ELSE /\ Len(last.log) = 3
               /\ last.log[1].ev = "download_index"
               /\ last.log[2].ev = "write_cache"
               /\ last.log[3].ev = "resolve_failed"
               /\ indexCache.exists

\* C9 witness: the second name failed to resolve after a first name that
\* resolved to a package not yet installed, and no index cache existed
ResolutionPrecedesInstallWitness ==
    /\ pc = "done" /\ last.op = "install" /\ ~last.system
    /\ Len(last.args) = 2
    /\ Resolvable(last.args[1])
    /\ ResolvedName(last.args[1]) \notin DOMAIN InstalledBefore
    /\ ~Resolvable(last.args[2])
    /\ last.err = "Ambiguous"
    /\ ~last.before.indexCache.exists

\* C10: Name resolution rule.  A query that equals a name of the index
\* resolves to that name, whatever other names contain it; otherwise, if
\* exactly one name contains it, to that name; if none does the result is
\* the not-found error, if several do the ambiguous-name error.
ResolutionRule ==
    (pc = "done" /\ last.op = "resolve")
    => LET q == last.args[1]
           chosen == last.log[1].pkg
       IN  IF q \in FeedNames THEN last.err = NoErr /\ chosen = q
           ELSE IF Cardinality(Candidates(q)) = 1
                THEN last.err = NoErr /\ chosen \in Candidates(q)
           ELSE IF Candidates(q) = {} THEN last.err = "NotFound"
           ELSE last.err = "Ambiguous"

\* C10 witness: the query is a name of the index that two other names
\* contain, and it was chosen
ResolutionRuleWitness ==
    /\ pc = "done" /\ last.op = "resolve"
    /\ last.args[1] \in FeedNames
    /\ Cardinality(Candidates(last.args[1])) = 3
    /\ last.err = NoErr
    /\ last.log[1].pkg = last.args[1]

\* the events of the log with the given tag for the given package
EventsFor(ev, p) == {i \in EventsOf(ev) : last.log[i].pkg = p}

\* C11: At-most-once processing.  Within one install transaction every
\* package is downloaded and extracted at most once and no file is staged
\* twice, however many requested names or dependency paths lead to the
\* package; a package installed before the transaction is never downloaded.
AtMostOnceProcessing ==
    (pc = "done" /\ last.op = "install")
    => /\ \A p \in PackagesOf("download") \cup PackagesOf("extract") :
              /\ Cardinality(EventsFor("download", p)) <= 1
              /\ Cardinality(EventsFor("extract", p)) <= 1
              /\ p \notin DOMAIN InstalledBefore
       /\ \A i, j \in EventsOf("stage") :
              last.log[i].path = last.log[j].path => i = j
       /\ PackagesOf("stage") \cap DOMAIN InstalledBefore = {}

\* C11 witness: `install ab b` with c installed before: b is reached from
\* the command line and as a dependency of ab, c from ab and from b; ab and b
\* were downloaded once each and c not at all
AtMostOnceProcessingWitness ==
    /\ pc = "done" /\ last.op = "install" /\ last.outcome = "ok"
    /\ last.args = << nAB, nB >>
    /\ nC \in DOMAIN InstalledBefore
    /\ FilesOf(InstalledBefore, nC) # {}
    /\ PackagesOf("download") = {nAB, nB}
    /\ Cardinality(EventsOf("download")) = 2
    /\ nB \in PackagesOf("already_installed")

\* C12: System mark.  A successful `install --system` downloads and
\* extracts no package; for a name not yet installed it records an entry with
\* dist "special", repo "system", no files, no dependencies and explicit
\* equal to the boolean true; an entry that existed is left unchanged.
SystemMarkRecordsBooleanTrue ==
    (pc = "done" /\ last.op = "install" /\ last.system /\ last.outcome = "ok")
    => /\ PackagesOf("download") \cup PackagesOf("extract") = {}
       /\ root = last.before.root
       /\ \A i \in DOMAIN last.args :
              /\ last.args[i] \in DOMAIN InstalledNow
              /\ IF last.args[i] \in DOMAIN InstalledBefore
                 THEN InstalledNow[last.args[i]] = InstalledBefore[last.args[i]]
                 ELSE InstalledNow[last.args[i]] =
                          [dist |-> "special", repo |-> "system", explicit |-> JTrue,
                           files |-> << >>, depends |-> << >>]

\* the paths the log has an event of the given tag for, for the given package
PathsFor(ev, p) == {last.log[i].path : i \in EventsFor(ev, p)}

\* the installed packages that list p in their depends
ReverseDependents(installed, p) ==
    {r \in DOMAIN installed : \E k \in DOMAIN installed[r].depends :
                                  installed[r].depends[k] = p}

\* C13: Missing files do not stop removal.  When a remove command starts with
\* remove(P) on a package with no reverse dependents, some of whose recorded
\* files are absent from the install root, a warning is printed for each
\* absent file, each recorded file that is present is deleted, the entry of P
\* is deleted, the cascade into the dependencies of P runs, and no error is
\* raised.
MissingFilesDoNotStopRemoval ==
    (pc = "done" /\ last.op = "remove"
        /\ last.args[1] \in DOMAIN InstalledBefore
        /\ ReverseDependents(InstalledBefore, last.args[1]) = {}
        /\ ~(FilesOf(InstalledBefore, last.args[1]) \subseteq last.before.root))
    => LET P == last.args[1]
           before == InstalledBefore
       IN  /\ \E i \in DOMAIN last.calls :
                  /\ last.calls[i].pkg = P /\ ~last.calls[i].quiet
                  /\ last.calls[i].result = "removed"
           /\ PathsFor("missing", P) = FilesOf(before, P) \ last.before.root
           /\ PathsFor("delete", P) = FilesOf(before, P) \cap last.before.root
           /\ FilesOf(before, P) \cap root = {}
           /\ P \notin DOMAIN last.mem
           /\ \A B \in (Range(before[P].depends) \cap DOMAIN before) \ {P} :
                  ~Truthy(before[B].explicit)
                  => /\ \E i \in DOMAIN last.calls :
                            last.calls[i].pkg = B /\ last.calls[i].quiet
                     /\ ReverseDependents(before, B) = {P} => B \notin DOMAIN last.mem
           /\ last.err \notin {"MissingFile"}
           /\ Len(last.args) = 1 => (last.outcome = "ok" /\ P \notin DOMAIN InstalledNow)

\* C13 witness: `remove b` with lib/b deleted from outside; the warning was
\* printed, b is gone and the cascade removed c, one of whose two files was
\* missing as well
MissingFilesDoNotStopRemovalWitness ==
    /\ pc = "done" /\ last.op = "remove" /\ last.outcome = "ok"
    /\ last.args = << nB >>
    /\ PathsFor("missing", nB) = {"lib/b"}
    /\ PathsFor("missing", nC) = {"share/x"}
    /\ PathsFor("delete", nC) = {"lib/c"}
    /\ DOMAIN InstalledNow = {}
    /\ root = {}

\* what one install command did to load the package index
IndexLoadedFromCacheOrFeed ==
    (pc = "done" /\ last.op = "install")
    => LET cache == last.before.indexCache
       IN  IF cache.exists
           THEN /\ EventsOf("download_index") = {}
                /\ EventsOf("write_cache") = {}
                /\ read_package_index(cache).index = cache.data
                /\ PackagesOf("download") \subseteq IndexNames(cache.data)
                /\ last.err # "DuplicatePackage"
                /\ indexCache = cache
           ELSE /\ Cardinality(EventsOf("download_index")) = 1
                /\ IF last.err = "DuplicatePackage"
                   THEN /\ EventsOf("write_cache") = {}
                        /\ ~indexCache.exists
                        /\ last.outcome = "raised"
                        /\ root = last.before.root
                        /\ stateFile = last.before.stateFile
                   ELSE /\ Cardinality(EventsOf("write_cache")) = 1
                        /\ indexCache = [exists |-> TRUE,
                                         data |-> ParseFeed(feed, 1, << >>).packages]

\* C14: Index cache.  After one successful load of the package index, every
\* later load performs no network fetch and returns the same index, whatever
\* the mirror publishes in the meantime: a command that finds the cache file
\* downloads no feed and uses the cached index, and a cache file, once written,
\* never changes.  A load that fails with the duplicate-package error writes
\* no cache.
IndexCacheReused ==
    /\ []IndexLoadedFromCacheOrFeed
    /\ [][indexCache.exists => indexCache' = indexCache]_vars

\* C14 witness: the index was cached from the feed of e and ea, the mirror now
\* also lists f, and `install f` found no f in the cached index
IndexCacheReusedWitness ==
    /\ pc = "done" /\ last.op = "install" /\ ~last.system
    /\ last.args = << nF >>
    /\ feed = FeedTail
    /\ last.before.indexCache = [exists |-> TRUE, data |-> FeedCycle]
    /\ EventsOf("download_index") = {}
    /\ last.err = "NotFound"
    /\ nE \in DOMAIN InstalledNow

\* the names the index lists as dependencies of package p
DependsOf(index, p) ==
    {FirstToken(IndexEntry(index, p).depends[k]) : k \in DOMAIN IndexEntry(index, p).depends}

\* the packages of the index that p reaches in one or more dependency steps
RECURSIVE ReachableFrom(_, _)
ReachableFrom(index, S) ==
    LET next == S \cup UNION {DependsOf(index, p) : p \in S \cap IndexNames(index)}
    IN  IF next = S THEN S ELSE ReachableFrom(index, next)

DependenciesOf(index, p) == ReachableFrom(index, DependsOf(index, p))

\* p is on a dependency cycle of the index (a package that depends on itself included)
OnIndexCycle(index, p) == p \in IndexNames(index) /\ p \in DependenciesOf(index, p)

\* C15: install terminates on an index with dependency cycles.  An install
\* command whose names all resolve, with every dependency in the index, every
\* download and extraction returning and no file conflict, exits successfully
\* even when a requested package is on a dependency cycle or depends on
\* itself: each package is downloaded at most once, and every requested
\* package that was not yet installed is installed together with the
\* dependencies recorded for it, the members of its cycle included.
InstallTerminatesOnCycles ==
    (pc = "done" /\ last.op = "install" /\ ~last.system /\ last.fault = NoFault
        /\ last.err # "Conflict"
        /\ (\A i \in DOMAIN last.args : Resolvable(last.args[i]))
        /\ (\A p \in FeedNames : DependsOf(feed, p) \subseteq FeedNames)
        /\ (\E i \in DOMAIN last.args : OnIndexCycle(feed, ResolvedName(last.args[i]))))
    => /\ last.outcome = "ok"
       /\ \A p \in PackagesOf("download") : Cardinality(EventsFor("download", p)) = 1
       /\ \A i \in DOMAIN last.args : ResolvedName(last.args[i]) \in DOMAIN InstalledNow
       /\ \A p \in DOMAIN InstalledNow \ DOMAIN InstalledBefore :
              /\ p \in PackagesOf("download")
              /\ Range(InstalledNow[p].depends) = DependsOf(feed, p)
              /\ Range(InstalledNow[p].depends) \subseteq DOMAIN InstalledNow
              /\ DOMAIN InstalledBefore = {} => DependenciesOf(feed, p) \subseteq DOMAIN InstalledNow

\* C15 witness: `install e` on the feed where e depends on ea and ea on e and
\* on itself has installed both, each downloaded once
InstallTerminatesOnCyclesWitness ==
    /\ pc = "done" /\ last.op = "install" /\ last.outcome = "ok"
    /\ feed = FeedCycle
    /\ last.args = << nE >>
    /\ DOMAIN InstalledBefore = {}
    /\ DOMAIN InstalledNow = {nE, nEA}
    /\ InstalledNow[nEA].depends = << nE, nEA >>
    /\ Cardinality(EventsOf("download")) = 2

\* the installed packages that p reaches through the recorded depends lists of
\* installed packages, in one or more steps
RECURSIVE InstalledReachable(_, _)
InstalledReachable(installed, S) ==
    LET next == S \cup UNION {Range(installed[p].depends) \cap DOMAIN installed : p \in S}
    IN  IF next = S THEN S ELSE InstalledReachable(installed, next)

\* p is on a dependency cycle all of whose packages are installed  (a single
\* installed package that lists itself in depends included)
OnInstalledCycle(installed, p) ==
    /\ p \in DOMAIN installed
    /\ p \in InstalledReachable(installed, Range(installed[p].depends) \cap DOMAIN installed)

\* what one remove command did to the packages that were on an installed cycle
CycleMembersSurviveRemove ==
    (pc = "done" /\ last.op = "remove")
    => \A p \in DOMAIN InstalledBefore :
           OnInstalledCycle(InstalledBefore, p)
           => /\ p \in DOMAIN last.mem /\ last.mem[p] = InstalledBefore[p]
              /\ p \in DOMAIN InstalledNow /\ InstalledNow[p] = InstalledBefore[p]
              /\ EventsFor("delete", p) = {}
              /\ FilesOf(InstalledBefore, p) \cap last.before.root \subseteq root
              /\ \A i \in DOMAIN last.calls :
                     last.calls[i].pkg = p
                     => /\ last.calls[i].result = (IF last.calls[i].quiet THEN "skipped"
                                                                          ELSE "raised")
                        /\ last.calls[i].rdeps # {}
                        /\ last.calls[i].present
                        /\ last.calls[i].lost = {}
              /\ (\E i \in DOMAIN last.calls : last.calls[i].pkg = p /\ ~last.calls[i].quiet)
                 => (last.outcome = "raised" /\ last.err = "Blocked")

\* C16: Installed dependency cycles are never removed.  Once the packages of
\* a dependency cycle (a single package that lists itself in depends included)
\* are all installed, no command removes any of them: every explicit removal
\* of a member fails with the blocked-by-dependents error, every cascade
\* removal of a member is skipped, and in every step the entry of a member
\* stays in the installed-packages file as it is.
InstalledCyclesAreNeverRemoved ==
    /\ []CycleMembersSurviveRemove
    /\ [][\A p \in DOMAIN InstalledNow :
              OnInstalledCycle(InstalledNow, p)
              => /\ p \in DOMAIN InstalledNow'
                 /\ InstalledNow'[p] = InstalledNow[p]
                 /\ OnInstalledCycle(InstalledNow', p)]_vars

\* C16 witness: with f, e and ea installed, where e and ea depend on each
\* other, `remove f e` removed f, skipped e in the cascade of f, and then
\* failed on e with the blocked-by-dependents error
InstalledCyclesAreNeverRemovedWitness ==
    /\ pc = "done" /\ last.op = "remove"
    /\ last.args = << nF, nE >>
    /\ DOMAIN InstalledBefore = {nF, nE, nEA}
    /\ OnInstalledCycle(InstalledBefore, nE) /\ OnInstalledCycle(InstalledBefore, nEA)
    /\ \E i \in DOMAIN last.calls :
           last.calls[i].pkg = nE /\ last.calls[i].quiet /\ last.calls[i].result = "skipped"
    /\ \E i \in DOMAIN last.calls :
           last.calls[i].pkg = nE /\ ~last.calls[i].quiet /\ last.calls[i].result = "raised"
    /\ last.err = "Blocked"
    /\ {nE, nEA} \subseteq DOMAIN last.mem

\* C17: Dependency closure.  In every state reached from the empty
\* installed-packages state by install commands without --system and remove
\* commands that succeed, every name in the depends list of every installed
\* package is itself installed; a remove command deletes no package that a
\* package still installed depends on.
DependencyClosure ==
    /\ \A p \in DOMAIN InstalledNow :
           Range(InstalledNow[p].depends) \subseteq DOMAIN InstalledNow
    /\ pc = "done"
       => /\ \A p \in DOMAIN last.mem : Range(last.mem[p].depends) \subseteq DOMAIN last.mem
          /\ \A p \in DOMAIN InstalledBefore \ DOMAIN InstalledNow :
                 ReverseDependents(InstalledNow, p) = {}

\* C17 witness: with k, l and m installed, k and l on request, `remove k` has
\* left l and its dependency m, which the cascade of k skipped
DependencyClosureWitness ==
    /\ pc = "done" /\ last.op = "remove" /\ last.outcome = "ok"
    /\ last.args = << nK >>
    /\ DOMAIN InstalledBefore = {nK, nL, nM}
    /\ DOMAIN InstalledNow = {nL, nM}
    /\ InstalledNow[nL].depends = << nM >>
    /\ \E i \in DOMAIN last.calls :
           last.calls[i].pkg = nM /\ last.calls[i].result = "skipped"

\* C18: No-orphan cascade.  When a remove command returns successfully,
\* every package that was a dependency of a package removed by it and is still
\* installed either has explicit set or is listed in the depends of a package
\* still installed: the cascade leaves no non-explicit former dependency
\* without a reverse dependent, whatever the order of the depends lists.
NoOrphanAfterCascade ==
    (pc = "done" /\ last.op = "remove" /\ last.outcome = "ok")
    => /\ InstalledNow = last.mem
       /\ \A X \in DOMAIN InstalledBefore \ DOMAIN InstalledNow :
              \A D \in Range(InstalledBefore[X].depends) \cap DOMAIN InstalledNow :
                  \/ Truthy(InstalledNow[D].explicit)
                  \/ ReverseDependents(InstalledNow, D) # {}

\* C18 witness: k lists m before l, and l lists m; `remove k` first skipped m,
\* which l still needed, then removed l, whose own cascade removed m
NoOrphanAfterCascadeWitness ==
    /\ pc = "done" /\ last.op = "remove" /\ last.outcome = "ok"
    /\ last.args = << nK >>
    /\ DOMAIN InstalledBefore = {nK, nL, nM}
    /\ InstalledBefore[nK].depends = << nM, nL >>
    /\ \E i, j \in DOMAIN last.calls :
           /\ i < j
           /\ last.calls[i].pkg = nM /\ last.calls[i].result = "skipped"
           /\ last.calls[j].pkg = nM /\ last.calls[j].result = "removed"
    /\ DOMAIN InstalledNow = {}

====
